---- MODULE Spec2Model ----
(***************************************************************************)
(* A model of the UFL symbolic kernel: the transform-propagation pass      *)
(* (ufl/algorithms/apply_transforms.py), the constructors of the           *)
(* differential operators (ufl/differentiation.py), the function-space     *)
(* hierarchy (ufl/functionspace.py) and the Coefficient terminal           *)
(* (ufl/coefficient.py) and the labelled variable (ufl/variable2.py).      *)
(***************************************************************************)
EXTENDS Integers, Sequences, FiniteSets, TLC

\* Bounds of the model.
MaxBuilt == 4       \* compound nodes the client builds before a pass
MaxPasses == 2      \* successive apply_transforms calls

MaxRank == 2        \* rank of an operand of a differential operator
MaxIdx == 2         \* free indices of an operand
MaxDx == 3          \* index symbols of one SpatialDerivative
MaxMixed == 2       \* domains of a mixed (tuple) domain, cells of a mixed cell
MaxSub == 3         \* sub-spaces handed to one MixedFunctionSpace
MaxCoefficients == 3 \* Coefficient objects the client constructs
MaxVariables == 3   \* NewVariable objects the client constructs

VARIABLES
    heap,           \* the expression objects, by identity (index in the sequence)
    passes,         \* one record per apply_transforms call, in call order
    operand,        \* the expression a differential operator is applied to
    made,           \* the outcome of the last differential-operator constructor call
    space,          \* the outcome of the last FunctionSpace constructor call
    mixed,          \* the outcome of the last MixedFunctionSpace constructor call
    answer,         \* the outcome of the last query on the mixed space
    coefficients,   \* the Coefficient objects, by identity (index in the sequence)
    globalcount,    \* Coefficient._globalcount
    signed,         \* the signature data of every coefficient under one renumbering
    variables,      \* the NewVariable objects, by identity (index in the sequence)
    labelcount,     \* Label._globalcount
    compared        \* the outcome of the last NewVariable.__eq__ call

varsT == <<heap, passes>>
varsD == <<operand, made>>
varsS == <<space, mixed, answer>>
varsC == <<coefficients, globalcount, signed>>
varsV == <<variables, labelcount, compared>>
vars == <<heap, passes, operand, made, space, mixed, answer, coefficients, globalcount, signed,
          variables, labelcount, compared>>

None == "None"
NoNode == [op |-> "none"]
NoCall == [op |-> "none", args |-> <<>>, status |-> "none", node |-> NoNode, message |-> ""]
SeqsUpTo(S, n) == UNION {[1..k -> S] : k \in 0..n}
Range(s) == {s[i] : i \in 1..Len(s)}

(***************************************************************************)
(* Expression DAG.  A node is an object of the heap; its operands are      *)
(* identities of other objects.  Nodes are immutable: the heap only grows. *)
(***************************************************************************)
Node(kind, ops, name) == [kind |-> kind, ops |-> ops, name |-> name]

\* o._ufl_is_terminal_
IsTerminal(n) == n.kind \in {"Coefficient", "TransformOp"}

\* isinstance(f, FormArgument)
IsFormArgument(n) == n.kind = "Coefficient"

\* Allocation of a new object: the constructor call Kind(*ops).
Alloc(h, n) == Append(h, n)

\* The identities reachable from e (e included).
RECURSIVE Reach(_, _)
Reach(h, e) ==
    {e} \cup UNION {Reach(h, h[e].ops[i]) : i \in 1..Len(h[e].ops)}

\* The expression below e unfolded to a tree: what structural equality compares.
RECURSIVE Tree(_, _)
Tree(h, e) ==
    [kind |-> h[e].kind, name |-> h[e].name,
     ops |-> [i \in 1..Len(h[e].ops) |-> Tree(h, h[e].ops[i])]]

(***************************************************************************)
(* The traversal engine and the two rulesets.  A traversal context carries *)
(* the heap (allocation is global), the memo table of the running          *)
(* map_expr_dag call, the number of rule applications per node over the    *)
(* whole pass, and whether an assertion failed.                            *)
(***************************************************************************)
Dispatcher == [cls |-> "TransformedRuleDispatcher", op |-> 0]
Ruleset(transform_op) == [cls |-> "TransformedRuleset", op |-> transform_op]

Count(visits, e) == IF e \in DOMAIN visits THEN visits[e] ELSE 0
Visited(ctx, e) == [ctx EXCEPT !.visits = (e :> (Count(@, e) + 1)) @@ @]

\* The objects the rules have returned for node e, over the whole pass.
ResultsOf(results, e) == IF e \in DOMAIN results THEN results[e] ELSE {}
Returned(ctx, e, res) ==
    [ctx EXCEPT !.results = (e :> (ResultsOf(@, e) \cup {res})) @@ @]

\* MultiFunction.reuse_if_untouched: the node itself when every rewritten
\* operand is the original operand object, else the node rebuilt on the new
\* operands.
reuse_if_untouched(o, ops, ctx) ==
    IF \A i \in 1..Len(ops) : ops[i] = ctx.heap[o].ops[i]
    THEN [ctx |-> ctx, res |-> o]
    ELSE [ctx |-> [ctx EXCEPT !.heap = Alloc(@, Node(ctx.heap[o].kind, ops, ctx.heap[o].name))],
          res |-> Len(ctx.heap) + 1]

\* TransformedRuleset.terminal / TransformedRuleDispatcher.terminal
terminal(o, ctx) == [ctx |-> ctx, res |-> o]

\* expr = MultiFunction.reuse_if_untouched, in TransformedRuleset
RulesetExpr(o, ops, ctx) == reuse_if_untouched(o, ops, ctx)

\* A dispatcher whose default rule rebuilds every compound node.
DispatcherExprRebuilds(o, ops, ctx) ==
    [ctx |-> [ctx EXCEPT !.heap = Alloc(@, Node(ctx.heap[o].kind, ops, ctx.heap[o].name))],
     res |-> Len(ctx.heap) + 1]

\* expr = MultiFunction.reuse_if_untouched, in TransformedRuleDispatcher
DispatcherExpr(o, ops, ctx) == reuse_if_untouched(o, ops, ctx)

\* TransformedRuleset.reference_value
reference_value(transform_op, o, ctx) ==
    LET f == ctx.heap[ctx.heap[o].ops[1]]
        ok == IsTerminal(f) /\ IsFormArgument(f)
    IN  IF ~ok
        THEN [ctx |-> [ctx EXCEPT !.failed = TRUE], res |-> o]
        ELSE [ctx |-> [ctx EXCEPT !.heap = Alloc(@, Node("Transformed", <<o, transform_op>>, ""))],
              res |-> Len(ctx.heap) + 1]

\* A rule that takes the node alone is applied without visiting the operands.
Cutoff(rules, n) ==
    \/ IsTerminal(n)
    \/ rules.cls = "TransformedRuleset" /\ n.kind = "ReferenceValue"

RECURSIVE Traverse(_, _, _)
RECURSIVE TraverseOps(_, _, _, _)
RECURSIVE Handler(_, _, _, _)

\* map_expr_dag(rules, e): one post-order pass with a memo table of its own.
map_expr_dag(rules, e, ctx) ==
    LET c == Traverse(rules, e, [ctx EXCEPT !.memo = <<>>])
    IN  [ctx |-> [c EXCEPT !.memo = ctx.memo], res |-> c.memo[e]]

\* TransformedRuleDispatcher.transformed
transformed(o, A, transform_op, ctx) ==
    map_expr_dag(Ruleset(transform_op), A, ctx)

\* The rule a ruleset has for the node's kind, applied.
Handler(rules, o, ops, ctx) ==
    LET n == ctx.heap[o]
        c == Visited(ctx, o)
    IN  IF IsTerminal(n) THEN terminal(o, c)
        ELSE IF rules.cls = "TransformedRuleDispatcher"
        THEN IF n.kind = "Transformed"
             THEN transformed(o, ops[1], ops[2], c)
             ELSE DispatcherExpr(o, ops, c)
        ELSE IF n.kind = "ReferenceValue"
             THEN reference_value(rules.op, o, c)
             ELSE RulesetExpr(o, ops, c)

TraverseOps(rules, ops, i, ctx) ==
    IF i > Len(ops) THEN ctx
    ELSE TraverseOps(rules, ops, i + 1, Traverse(rules, ops[i], ctx))

Traverse(rules, e, ctx) ==
    IF e \in DOMAIN ctx.memo THEN ctx
    ELSE LET n == ctx.heap[e]
             c1 == IF Cutoff(rules, n) THEN ctx ELSE TraverseOps(rules, n.ops, 1, ctx)
             r == Handler(rules, e, [i \in 1..Len(n.ops) |-> c1.memo[n.ops[i]]], c1)
         IN  [Returned(r.ctx, e, r.res) EXCEPT !.memo = (e :> r.res) @@ @]

\* map_integrand_dags on an expression: the traversal of that expression.
map_integrand_dags(rules, expression, ctx) == map_expr_dag(rules, expression, ctx)

\* apply_transforms(expression)
apply_transforms(h, expression) ==
    map_integrand_dags(Dispatcher, expression,
                       [heap |-> h, memo |-> <<>>, visits |-> <<>>, results |-> <<>>,
                        failed |-> FALSE])

(***************************************************************************)
(* The client: builds an expression, then runs the pass on it, and again   *)
(* on the pass's output.                                                   *)
(***************************************************************************)
Terminals ==
    <<Node("Coefficient", <<>>, "f"),
      Node("TransformOp", <<>>, "op1"),
      Node("TransformOp", <<>>, "op2")>>

Ids == 1..Len(heap)
Values == {e \in Ids : heap[e].kind # "TransformOp"}
Built == Len(heap) - Len(Terminals)
CanBuild == passes = <<>> /\ Built < MaxBuilt

IdleT == heap = <<>> /\ passes = <<>>
IdleD == operand = None /\ made = NoCall
IdleS == space = NoCall /\ mixed = NoCall /\ answer = NoCall
IdleC == coefficients = <<>> /\ globalcount = 0 /\ signed = NoCall
IdleV == variables = <<>> /\ labelcount = 0 /\ compared = NoCall

InitT ==
    /\ heap = Terminals
    /\ passes = <<>>
    /\ IdleD
    /\ IdleS
    /\ IdleC
    /\ IdleV

BuildReferenceValue ==
    /\ CanBuild
    /\ \E f \in Ids :
         /\ IsFormArgument(heap[f])
         /\ heap' = Alloc(heap, Node("ReferenceValue", <<f>>, ""))
    /\ UNCHANGED <<passes, varsD, varsS, varsC, varsV>>

BuildSum ==
    /\ CanBuild
    /\ \E a \in Values, b \in Values :
         /\ a <= b
         /\ heap' = Alloc(heap, Node("Sum", <<a, b>>, ""))
    /\ UNCHANGED <<passes, varsD, varsS, varsC, varsV>>

BuildTransformed ==
    /\ CanBuild
    /\ \E a \in Values, op \in Ids :
         /\ heap[op].kind = "TransformOp"
         /\ heap' = Alloc(heap, Node("Transformed", <<a, op>>, ""))
    /\ UNCHANGED <<passes, varsD, varsS, varsC, varsV>>

\* The expression the client hands to the pass: the node built last, with every
\* node built before it among its sub-expressions.
IsWholeExpression(e) ==
    /\ e = Len(heap)
    /\ {n \in Ids : ~IsTerminal(heap[n])} \subseteq Reach(heap, e)

ApplyTransforms ==
    /\ Len(passes) < MaxPasses
    /\ IF passes = <<>> THEN IsWholeExpression(Len(heap)) ELSE TRUE
    /\ LET expression == IF passes = <<>> THEN Len(heap) ELSE passes[Len(passes)].output
           r == apply_transforms(heap, expression)
       IN  /\ heap' = r.ctx.heap
           /\ passes' = Append(passes, [input |-> expression, output |-> r.res,
                                        before |-> Len(heap), after |-> Len(r.ctx.heap),
                                        visits |-> r.ctx.visits, results |-> r.ctx.results,
                                        failed |-> r.ctx.failed])
    /\ UNCHANGED <<varsD, varsS, varsC, varsV>>

NextT == BuildReferenceValue \/ BuildSum \/ BuildTransformed \/ ApplyTransforms

SpecT == InitT /\ [][NextT]_vars

(***************************************************************************)
(* Differential operators (ufl/differentiation.py).  An operand is an      *)
(* expression object seen through shape() and free_indices(); a            *)
(* constructor either returns the node or raises.                          *)
(***************************************************************************)
Indices == {"i", "j", "k"}
Dims == {2, 3}
Shapes == SeqsUpTo(Dims, MaxRank)
Injective(s) == \A a, b \in 1..Len(s) : s[a] = s[b] => a = b
FreeTuples == {s \in SeqsUpTo(Indices, MaxIdx) : Injective(s)}
DxTuples == SeqsUpTo(Indices, MaxDx)
Operands == [cls : {"Expr", "Variable"}, shape : Shapes, free : FreeTuples]

Raise(msg) == [status |-> "error", node |-> NoNode, message |-> msg]
Return(n) == [status |-> "ok", node |-> n, message |-> ""]

\* UFLObject.rank(): the length of shape().
rank(e) == Len(e.shape)

\* Occurrences of symbol s in the index list.
Occurrences(indices, s) == Cardinality({p \in 1..Len(indices) : indices[p] = s})

\* The distinct elements of the list, in order of first appearance.
RECURSIVE Unique(_)
Unique(indices) ==
    IF indices = <<>> THEN <<>>
    ELSE LET rest == Unique(SubSeq(indices, 1, Len(indices) - 1))
             last == indices[Len(indices)]
         IN  IF last \in Range(rest) THEN rest ELSE Append(rest, last)

\* extract_indices(indices, shape): the symbols that occur once are free, those
\* that occur twice are repeated, a third occurrence is an error.
extract_indices(indices, shape) ==
    IF \E s \in Range(indices) : Occurrences(indices, s) > 2
    THEN [error |-> TRUE, free |-> <<>>, repeated |-> <<>>, shape |-> shape]
    ELSE [error |-> FALSE,
          free |-> SelectSeq(Unique(indices), LAMBDA s : Occurrences(indices, s) = 1),
          repeated |-> SelectSeq(Unique(indices), LAMBDA s : Occurrences(indices, s) = 2),
          shape |-> shape]

\* SpatialDerivative.__init__
SpatialDerivative(expression, indices) ==
    LET dx == extract_indices(indices, <<>>)
        combined == extract_indices(expression.free \o dx.free, expression.shape)
    IN  IF dx.error THEN Raise("Too many index repetitions")
        ELSE IF combined.error THEN Raise("Too many index repetitions")
        ELSE Return([op |-> "SpatialDerivative",
                     operands |-> <<expression, indices>>,
                     dx_free_indices |-> dx.free,
                     dx_repeated_indices |-> dx.repeated,
                     free_indices |-> combined.free,
                     repeated_indices |-> combined.repeated,
                     shape |-> combined.shape])

\* SpatialDerivative.free_indices / repeated_indices / repeated_index_dimensions
SpatialDerivative_free_indices(n) == n.free_indices
SpatialDerivative_repeated_indices(n) == n.repeated_indices
SpatialDerivative_repeated_index_dimensions(n, default_dim) ==
    [s \in Range(n.repeated_indices) |-> default_dim]

\* Diff.__init__
Diff(ff, x) ==
    LET fi == ff.free
        xi == x.free
        sym == (Range(fi) \ Range(xi)) \cup (Range(xi) \ Range(fi))
    IN  IF x.cls # "Variable" THEN Raise("Expecting a Variable in Diff.")
        ELSE IF ~(Cardinality(sym) = 0) THEN Raise("Repeated indices not allowed in Diff.")
        ELSE Return([op |-> "Diff", operands |-> <<ff, x>>,
                     free_indices |-> fi \o xi,
                     shape |-> ff.shape \o x.shape])

\* Diff.free_indices / Diff.shape
Diff_free_indices(n) == n.free_indices
Diff_shape(n) == n.shape

\* Div.__init__
Div(ff) ==
    IF ~(rank(ff) >= 1) THEN Raise("Can't take the divergence of a scalar.")
    ELSE IF ~(Len(ff.free) = 0) THEN Raise("Taking divergence of an expression with free indices")
    ELSE Return([op |-> "Div", operands |-> <<ff>>])

\* Div.free_indices
Div_free_indices(n) == n.operands[1].free

\* A shape() that drops the trailing axis instead of the leading one.
Div_shape_trailing(n) == SubSeq(n.operands[1].shape, 1, Len(n.operands[1].shape) - 1)

\* Div.shape
Div_shape(n) == Tail(n.operands[1].shape)

Call(op, args, r) ==
    [op |-> op, args |-> args, status |-> r.status, node |-> r.node, message |-> r.message]

InitD ==
    /\ operand \in Operands
    /\ made = NoCall
    /\ IdleT
    /\ IdleS
    /\ IdleC
    /\ IdleV

NewSpatialDerivative ==
    /\ made = NoCall
    /\ \E indices \in DxTuples :
         made' = Call("SpatialDerivative", <<operand, indices>>, SpatialDerivative(operand, indices))
    /\ UNCHANGED <<operand, varsT, varsS, varsC, varsV>>

NewDiff ==
    /\ made = NoCall
    /\ \E x \in Operands :
         made' = Call("Diff", <<operand, x>>, Diff(operand, x))
    /\ UNCHANGED <<operand, varsT, varsS, varsC, varsV>>

NewDiv ==
    /\ made = NoCall
    /\ made' = Call("Div", <<operand>>, Div(operand))
    /\ UNCHANGED <<operand, varsT, varsS, varsC, varsV>>

NextD == NewSpatialDerivative \/ NewDiff \/ NewDiv

SpecD == InitD /\ [][NextD]_vars

(***************************************************************************)
(* Function spaces (ufl/functionspace.py).  A cell is a single cell or a   *)
(* tuple of cells; a domain is None, a single domain or a tuple of         *)
(* domains.  A single domain either has ufl_cell() or is abstract.         *)
(***************************************************************************)
Cells == {"triangle", "tetrahedron"}
Families == {"P1", "P2"}

SingleCell(c) == [tuple |-> FALSE, cells |-> <<c>>]
TupleCell(cs) == [tuple |-> TRUE, cells |-> cs]
CellValues ==
    {SingleCell(c) : c \in Cells} \cup {TupleCell(cs) : cs \in SeqsUpTo(Cells, MaxMixed)}
Elements == [family : Families, cell : CellValues]

MeshOn(c) == [abstract |-> FALSE, cell |-> SingleCell(c)]
AbstractDomain == [abstract |-> TRUE, cell |-> SingleCell("")]
SingleDomains == {MeshOn(c) : c \in Cells} \cup {AbstractDomain}
NoDomain == [kind |-> "None", parts |-> <<>>]
OneDomain(d) == [kind |-> "single", parts |-> <<d>>]
TupleDomain(ds) == [kind |-> "tuple", parts |-> ds]
Domains ==
    {NoDomain} \cup {OneDomain(d) : d \in SingleDomains}
               \cup {TupleDomain(ds) : ds \in SeqsUpTo(SingleDomains, MaxMixed)}

\* A check_domain that lets every cell through.
check_domain_unchecked(d, c) ==
    IF d.abstract
    THEN "Expected non-abstract domain for initalization of function space."
    ELSE ""

\* check_domain(d, c) of FunctionSpace.__init__: the error it raises, "" for none.
check_domain(d, c) ==
    IF d.abstract
    THEN "Expected non-abstract domain for initalization of function space."
    ELSE IF c # d.cell THEN "Non-matching cell of finite element and domain."
    ELSE ""

\* FunctionSpace.__init__
FunctionSpace(domain, element) ==
    LET cell == element.cell
        built == Return([cls |-> "FunctionSpace", domain |-> domain, element |-> element])
    IN  IF domain.kind = "None" THEN built
        ELSE IF domain.kind = "tuple"
        THEN IF ~cell.tuple
             THEN Raise("Must have a mixed cell (tuple) if we have a mixed domain (tuple).")
             ELSE IF Len(domain.parts) # Len(cell.cells)
             THEN Raise("Mixed cell (tuple) and mixed domain (tuple) must have the same length.")
             ELSE IF \E i \in 1..Len(domain.parts) :
                        check_domain(domain.parts[i], SingleCell(cell.cells[i])) # ""
             THEN LET i == CHOOSE i \in 1..Len(domain.parts) :
                               /\ check_domain(domain.parts[i], SingleCell(cell.cells[i])) # ""
                               /\ \A j \in 1..(i - 1) :
                                     check_domain(domain.parts[j], SingleCell(cell.cells[j])) = ""
                  IN  Raise(check_domain(domain.parts[i], SingleCell(cell.cells[i])))
             ELSE built
        ELSE IF check_domain(domain.parts[1], cell) # ""
             THEN Raise(check_domain(domain.parts[1], cell))
             ELSE built

\* FunctionSpace.ufl_element
FunctionSpace_ufl_element(fs) == fs.element

\* The objects a client may hand to MixedFunctionSpace: function spaces on a
\* single mesh, and a TensorProductFunctionSpace, which is no FunctionSpace.
TensorProductFunctionSpace(spaces) ==
    [cls |-> "TensorProductFunctionSpace", domain |-> NoDomain,
     element |-> [family |-> "", cell |-> SingleCell("")]]
SubSpaces ==
    {FunctionSpace(OneDomain(MeshOn(c)), [family |-> fam, cell |-> SingleCell(c)]).node :
        c \in Cells, fam \in Families}
    \cup {TensorProductFunctionSpace(<<>>)}

\* The elements MixedFunctionSpace.__init__ collects, one per sub-space.
RECURSIVE CollectElements(_)
CollectElements(args) ==
    IF args = <<>> THEN <<>>
    ELSE Append(CollectElements(SubSeq(args, 1, Len(args) - 1)),
                FunctionSpace_ufl_element(args[Len(args)]))

\* MixedFunctionSpace.__init__
MixedFunctionSpace(args) ==
    IF \E i \in 1..Len(args) : args[i].cls # "FunctionSpace"
    THEN Raise("Expecting FunctionSpace objects")
    ELSE Return([cls |-> "MixedFunctionSpace", ufl_function_spaces |-> args,
                 ufl_elements |-> CollectElements(args)])

\* MixedFunctionSpace.ufl_elements
MixedFunctionSpace_ufl_elements(m) == [status |-> "ok", value |-> m.ufl_elements]

\* A ufl_element that answers whenever the sub-spaces hold one distinct element.
MixedFunctionSpace_ufl_element_distinct(m) ==
    IF Cardinality(Range(m.ufl_elements)) = 1
    THEN [status |-> "ok", value |-> <<m.ufl_elements[1]>>]
    ELSE [status |-> "error", value |-> <<>>]

\* MixedFunctionSpace.ufl_element: the element in a one-element list, or an error.
MixedFunctionSpace_ufl_element(m) ==
    IF Len(m.ufl_elements) = 1
    THEN [status |-> "ok", value |-> <<m.ufl_elements[1]>>]
    ELSE [status |-> "error", value |-> <<>>]

InitS ==
    /\ IdleS
    /\ IdleT
    /\ IdleD
    /\ IdleC
    /\ IdleV

NewFunctionSpace ==
    /\ space = NoCall /\ mixed = NoCall
    /\ \E domain \in Domains, element \in Elements :
         space' = Call("FunctionSpace", <<domain, element>>, FunctionSpace(domain, element))
    /\ UNCHANGED <<mixed, answer, varsT, varsD, varsC, varsV>>

NewMixedFunctionSpace ==
    /\ space = NoCall /\ mixed = NoCall
    /\ \E args \in SeqsUpTo(SubSpaces, MaxSub) :
         mixed' = Call("MixedFunctionSpace", args, MixedFunctionSpace(args))
    /\ UNCHANGED <<space, answer, varsT, varsD, varsC, varsV>>

AskElement ==
    /\ mixed.status = "ok" /\ answer = NoCall
    /\ answer' = [op |-> "ufl_element"] @@ MixedFunctionSpace_ufl_element(mixed.node)
    /\ UNCHANGED <<space, mixed, varsT, varsD, varsC, varsV>>

AskElements ==
    /\ mixed.status = "ok" /\ answer = NoCall
    /\ answer' = [op |-> "ufl_elements"] @@ MixedFunctionSpace_ufl_elements(mixed.node)
    /\ UNCHANGED <<space, mixed, varsT, varsD, varsC, varsV>>

NextS == NewFunctionSpace \/ NewMixedFunctionSpace \/ AskElement \/ AskElements

SpecS == InitS /\ [][NextS]_vars

(***************************************************************************)
(* Coefficients (ufl/coefficient.py).  A Coefficient is an object of the   *)
(* sequence `coefficients`; its parent is the identity of another          *)
(* Coefficient, 0 for None.  part is <<>> for None, else <<part>>.         *)
(***************************************************************************)
\* default_domain(cell): the default mesh on the cell.
default_domain(cell) == OneDomain(MeshOn(cell.cells[1]))

\* counted_init(self, count, Coefficient): the count the object gets and the
\* class counter afterwards.
counted_init(count, counter) ==
    LET c == IF count = <<>> THEN counter ELSE count[1]
    IN  [count |-> c, globalcount |-> IF c >= counter THEN c + 1 ELSE counter]

\* Coefficient.__init__: function_space is a FunctionSpace, or an element,
\* which is put on the default mesh of its cell.
Coefficient(function_space, count, part, parent, counter) ==
    LET counted == counted_init(count, counter)
        V == IF function_space.cls = "FiniteElement"
             THEN FunctionSpace(default_domain(function_space.element.cell),
                                function_space.element).node
             ELSE function_space
    IN  [object |-> [function_space |-> V, count |-> counted.count,
                     part |-> part, parent |-> parent],
         globalcount |-> counted.globalcount]

\* Coefficient.__eq__, of two Coefficient objects.
Coefficient_eq(a, b) ==
    \/ a = b
    \/ /\ coefficients[a].count = coefficients[b].count
       /\ coefficients[a].function_space = coefficients[b].function_space

\* The key of a counted object in a renumbering.
CoefficientKey(c) == <<"Coefficient", c.count>>
MeshKey == <<"Mesh", 0>>

\* domain._ufl_signature_data_(renumbering) and element._ufl_signature_data_()
Mesh_signature_data(d, renumbering) == <<"Mesh", renumbering[MeshKey], d.cell>>
Element_signature_data(e) == <<"FiniteElement", e.family, e.cell>>

\* FunctionSpace._ufl_signature_data_
FunctionSpace_signature_data(V, renumbering) ==
    LET domain == V.domain
        ddata == <<domain.kind,
                   [i \in 1..Len(domain.parts) |->
                       Mesh_signature_data(domain.parts[i], renumbering)]>>
        edata == Element_signature_data(V.element)
    IN  <<"FunctionSpace", ddata, edata>>

\* Coefficient._ufl_signature_data_
Coefficient_signature_data(c, renumbering) ==
    LET count == renumbering[CoefficientKey(c)]
        fsdata == FunctionSpace_signature_data(c.function_space, renumbering)
    IN  <<"Coefficient", count, c.part, c.parent, fsdata>>

\* Equality of two signature tuples: component by component, the parent
\* objects by Coefficient.__eq__.
SignatureEqual(sa, sb) ==
    /\ sa[1] = sb[1] /\ sa[2] = sb[2] /\ sa[3] = sb[3] /\ sa[5] = sb[5]
    /\ \/ sa[4] = 0 /\ sb[4] = 0
       \/ sa[4] # 0 /\ sb[4] # 0 /\ Coefficient_eq(sa[4], sb[4])

SpaceV == FunctionSpace(OneDomain(MeshOn("triangle")),
                        [family |-> "P1", cell |-> SingleCell("triangle")]).node
ElementW == [cls |-> "FiniteElement", domain |-> NoDomain,
             element |-> [family |-> "P2", cell |-> SingleCell("triangle")]]
SpaceArguments == {SpaceV, ElementW}
Parts == {<<>>, <<0>>}
Keys == {<<"Coefficient", c>> : c \in 0..(MaxCoefficients - 1)} \cup {MeshKey}
Renumberings == {r \in [Keys -> 0..1] : r[MeshKey] = 0}
Latest == Len(coefficients)

InitC ==
    /\ IdleC
    /\ IdleT
    /\ IdleD
    /\ IdleS
    /\ IdleV

NewCoefficient ==
    /\ signed = NoCall
    /\ Len(coefficients) < MaxCoefficients
    /\ \E function_space \in SpaceArguments, part \in Parts,
          parent \in 0..Len(coefficients),
          count \in {<<>>} \cup {<<coefficients[i].count>> : i \in {Latest} \ {0}} :
         LET r == Coefficient(function_space, count, part, parent, globalcount)
         IN  /\ coefficients' = Append(coefficients, r.object)
             /\ globalcount' = r.globalcount
    /\ UNCHANGED <<signed, varsT, varsD, varsS, varsV>>

SignatureData ==
    /\ signed = NoCall
    /\ coefficients # <<>>
    /\ \E renumbering \in Renumberings :
         signed' = [op |-> "signature_data", renumbering |-> renumbering,
                    data |-> [i \in 1..Len(coefficients) |->
                                 Coefficient_signature_data(coefficients[i], renumbering)]]
    /\ UNCHANGED <<coefficients, globalcount, varsT, varsD, varsS, varsV>>

NextC == NewCoefficient \/ SignatureData

SpecC == InitC /\ [][NextC]_vars

(***************************************************************************)
(* Labelled variables (ufl/variable2.py).  A NewVariable holds an          *)
(* expression and a Label; a Label is a counted terminal.                  *)
(***************************************************************************)

\* The names bound in the namespace of ufl/variable2.py: its four imports
\* and its two classes.
Globals == {"Counted", "ufl_assert", "Expr", "Terminal", "Label", "NewVariable"}

\* The classes an object of class cls is an instance of.
Bases(cls) ==
    CASE cls = "Label" -> {"Label", "Terminal", "Counted"}
      [] cls = "NewVariable" -> {"NewVariable", "Expr"}
      [] cls = "Expr" -> {"Expr"}
      [] OTHER -> {cls}

isinstance(o, cls) == cls \in Bases(o.cls)

AnExpr(name) == [cls |-> "Expr", expression |-> name, label |-> -1]
ALabel(count) == [cls |-> "Label", expression |-> "none", label |-> count]
NoneObject == [cls |-> "NoneType", expression |-> "none", label |-> -1]
AString == [cls |-> "str", expression |-> "none", label |-> -1]
Exprs == {AnExpr("f"), AnExpr("g")}

\* Label.__init__: Counted.__init__(self, count) on Label._globalcount.
Label(count, counter) ==
    LET counted == counted_init(count, counter)
    IN  [object |-> ALabel(counted.count), globalcount |-> counted.globalcount]

\* NewVariable.__init__: the outcome and Label._globalcount afterwards.
NewVariable(expression, label, counter) ==
    IF ~isinstance(expression, "Expr")
    THEN [result |-> Raise("Expecting an Expr."), globalcount |-> counter]
    ELSE LET fresh == Label(<<>>, counter)
             l == IF label = NoneObject THEN fresh.object ELSE label
             c == IF label = NoneObject THEN fresh.globalcount ELSE counter
         IN  IF ~isinstance(l, "Label")
             THEN [result |-> Raise("Expecting a Label."), globalcount |-> c]
             ELSE [result |-> Return([cls |-> "NewVariable",
                                      expression |-> expression.expression,
                                      label |-> l.label]),
                   globalcount |-> c]

Bool(b) == [op |-> "bool", value |-> b]

\* NewVariable.__eq__: isinstance(other, Variable) and the label counts are
\* equal.  The name Variable is looked up in the module's namespace when the
\* method runs.
NewVariable_eq(self, other) ==
    IF "Variable" \notin Globals
    THEN Raise("NameError: global name 'Variable' is not defined")
    ELSE Return(Bool(isinstance(other, "Variable") /\ self.label = other.label))

\* The labels of the variables built so far.
Labels == {ALabel(variables[i].label) : i \in 1..Len(variables)}

InitV ==
    /\ IdleV
    /\ IdleT
    /\ IdleD
    /\ IdleS
    /\ IdleC

\* NewVariable(expression) or NewVariable(expression, label).
ConstructVariable ==
    /\ compared = NoCall
    /\ Len(variables) < MaxVariables
    /\ \E expression \in Exprs \cup {AString},
          label \in {NoneObject, AString} \cup Labels :
         LET r == NewVariable(expression, label, labelcount)
         IN  /\ variables' = IF r.result.status = "ok"
                             THEN Append(variables, r.result.node)
                             ELSE variables
             /\ labelcount' = r.globalcount
    /\ UNCHANGED <<compared, varsT, varsD, varsS, varsC>>

\* v == other, with v a NewVariable.
CompareVariables ==
    /\ compared = NoCall
    /\ \E v \in 1..Len(variables),
          other \in Range(variables) \cup Exprs \cup Labels \cup {NoneObject} :
         compared' = Call("__eq__", <<variables[v], other>>,
                          NewVariable_eq(variables[v], other))
    /\ UNCHANGED <<variables, labelcount, varsT, varsD, varsS, varsC>>

NextV == ConstructVariable \/ CompareVariables

SpecV == InitV /\ [][NextV]_vars

(***************************************************************************)
(* Properties of the transform-propagation pass.                           *)
(***************************************************************************)
Pass(i) == passes[i]
HasTransformed(e) == \E t \in Reach(heap, e) : heap[t].kind = "Transformed"

\* A Transformed node that wraps directly the reference value of a form argument.
WrapsReferenceValue(t) ==
    LET w == heap[heap[t].ops[1]]
    IN  /\ w.kind = "ReferenceValue"
        /\ IsTerminal(heap[w.ops[1]])
        /\ IsFormArgument(heap[w.ops[1]])

\* C1: the output of apply_transforms is a fixed point of apply_transforms:
\* running the pass on the output of a pass returns a structurally equal
\* expression (same kinds, same operands in order, same operator on every
\* Transformed node).
C1_OutputIsFixedPoint ==
    \A i \in 1..Len(passes) :
        i > 1 => Tree(heap, Pass(i).output) = Tree(heap, Pass(i).input)

\* C2: after apply_transforms returns, every Transformed node of the output
\* wraps directly a reference-value node whose sole operand is a form-argument
\* terminal.
C2_TransformedWrapsReferenceValue ==
    \A i \in 1..Len(passes) :
        \A t \in Reach(heap, Pass(i).output) :
            heap[t].kind = "Transformed" => WrapsReferenceValue(t)

\* C7: apply_transforms on an expression that contains no Transformed node is
\* the identity: the returned root is the input root object and the pass
\* builds no node.
C7_IdentityWithoutTransformed ==
    \A i \in 1..Len(passes) :
        ~HasTransformed(Pass(i).input) =>
            /\ Pass(i).output = Pass(i).input
            /\ Pass(i).after = Pass(i).before
            /\ ~Pass(i).failed

\* C7's case: a pass has run over a Transformed-free expression with a shared
\* compound operand.
C7_Witness ==
    /\ Len(passes) >= 1
    /\ ~HasTransformed(Pass(1).input)
    /\ heap[Pass(1).input].kind = "Sum"
    /\ \E a \in Ids : heap[a].kind = "ReferenceValue" /\ heap[Pass(1).input].ops = <<a, a>>
    /\ Pass(1).output = Pass(1).input

(***************************************************************************)
(* Properties of the differential operators.                               *)
(***************************************************************************)
Built_(op) == made.op = op /\ made.status = "ok" /\ made.node # NoNode
Failed_(op) == made.op = op /\ made.status = "error" /\ made.node = NoNode
SharesIndex(a, b) == Range(a.free) \cap Range(b.free) # {}

\* C3: constructing Diff(f, x) where f and x share a free-index symbol fails
\* with an error and no Diff node is built.
C3_DiffSharedIndexFails ==
    (made.op = "Diff" /\ SharesIndex(made.args[1], made.args[2]))
        => Failed_("Diff")

\* C4: for every f and every Variable x whose free-index sets are disjoint,
\* Diff(f, x) is constructed, its shape is f.shape() followed by x.shape() and
\* its free indices are f's followed by x's.
C4_DiffDisjointBuilds ==
    (made.op = "Diff" /\ made.args[2].cls = "Variable"
       /\ ~SharesIndex(made.args[1], made.args[2]))
        => /\ Built_("Diff")
           /\ Diff_shape(made.node) = made.args[1].shape \o made.args[2].shape
           /\ Diff_free_indices(made.node) = made.args[1].free \o made.args[2].free

\* C9: for SpatialDerivative(expr, indices), every symbol that occurs exactly
\* twice in expr's free indices followed by the derivative's index symbols is
\* reported by repeated_indices(), has an entry in repeated_index_dimensions()
\* and is not in free_indices(); every symbol that occurs exactly once is in
\* free_indices() and not in repeated_indices().
C9_SpatialDerivativeClassifies ==
    Built_("SpatialDerivative") =>
        LET all == made.args[1].free \o made.args[2]
            n == made.node
        IN  \A s \in Indices :
              /\ Occurrences(all, s) = 2 =>
                    /\ s \in Range(SpatialDerivative_repeated_indices(n))
                    /\ s \in DOMAIN SpatialDerivative_repeated_index_dimensions(n, 3)
                    /\ s \notin Range(SpatialDerivative_free_indices(n))
              /\ Occurrences(all, s) = 1 =>
                    /\ s \in Range(SpatialDerivative_free_indices(n))
                    /\ s \notin Range(SpatialDerivative_repeated_indices(n))

\* C10: Div(f) is constructed exactly when f.rank() >= 1 and f has no free
\* indices, its shape is then f.shape() without the leading axis, and
\* otherwise construction fails and no node is built.
C10_DivShape ==
    (made.op = "Div") =>
        LET ff == made.args[1]
        IN  IF rank(ff) >= 1 /\ ff.free = <<>>
            THEN /\ Built_("Div")
                 /\ Div_shape(made.node) = SubSeq(ff.shape, 2, Len(ff.shape))
                 /\ Len(Div_shape(made.node)) = rank(ff) - 1
            ELSE Failed_("Div")

\* C10's case: Div of a rank-2 operand with distinct axes has been built.
C10_Witness ==
    /\ Built_("Div")
    /\ made.args[1].shape = <<2, 3>>
    /\ Div_shape(made.node) = <<3>>

(***************************************************************************)
(* Properties of the function spaces.                                      *)
(***************************************************************************)
SubElements == mixed.node.ufl_elements

\* C5 as stated: ufl_element() returns an element exactly when the sub-spaces
\* hold exactly one distinct element, and fails when they hold more than one.
C5_ElementWhenOneDistinct ==
    answer.op = "ufl_element" =>
        IF Cardinality(Range(SubElements)) = 1
        THEN answer.status = "ok" /\ answer.value = <<SubElements[1]>>
        ELSE answer.status = "error"

\* C5, amended: ufl_element() returns the element exactly when the mixed space
\* has exactly one sub-space, and fails otherwise, also when several
\* sub-spaces all carry the same element; ufl_elements() always succeeds and
\* returns one element per sub-space, in order.
C5_ElementWhenOneSubSpace ==
    /\ answer.op = "ufl_element" =>
          IF Len(mixed.args) = 1
          THEN answer.status = "ok" /\ answer.value = <<mixed.args[1].element>>
          ELSE answer.status = "error"
    /\ answer.op = "ufl_elements" =>
          /\ answer.status = "ok"
          /\ Len(answer.value) = Len(mixed.args)
          /\ \A i \in 1..Len(mixed.args) : answer.value[i] = mixed.args[i].element

\* C5's case: ufl_element() was asked of a mixed space of two sub-spaces that
\* carry the same element, and failed.
C5_Witness ==
    /\ answer.op = "ufl_element"
    /\ Len(mixed.args) = 2
    /\ Cardinality(Range(SubElements)) = 1
    /\ answer.status = "error"

CellsMatch(domain, element) ==
    IF domain.kind = "tuple"
    THEN /\ element.cell.tuple
         /\ Len(element.cell.cells) = Len(domain.parts)
         /\ \A i \in 1..Len(domain.parts) :
               /\ ~domain.parts[i].abstract
               /\ domain.parts[i].cell.cells[1] = element.cell.cells[i]
    ELSE /\ ~domain.parts[1].abstract
         /\ domain.parts[1].cell = element.cell

\* C8: FunctionSpace(domain, element) fails, and no space is built, whenever
\* domain is a single domain whose cell differs from element.cell(), or domain
\* is a tuple and element.cell() is not a tuple, has another length or differs
\* from the domain cells at some position; it succeeds when domain is None or
\* all compared cells match.
C8_FunctionSpaceCellsChecked ==
    space.op = "FunctionSpace" =>
        LET domain == space.args[1]
            element == space.args[2]
        IN  IF domain.kind = "None" \/ CellsMatch(domain, element)
            THEN /\ space.status = "ok"
                 /\ space.node.domain = domain /\ space.node.element = element
            ELSE space.status = "error" /\ space.node = NoNode

\* C8's case: a mixed domain and a mixed cell of the same length that differ
\* at the second position only.
C8_Witness ==
    /\ space.op = "FunctionSpace"
    /\ space.args[1] = TupleDomain(<<MeshOn("triangle"), MeshOn("tetrahedron")>>)
    /\ space.args[2].cell = TupleCell(<<"triangle", "triangle">>)
    /\ space.status = "error"

(***************************************************************************)
(* Properties of the coefficients.                                         *)
(***************************************************************************)
Renumbered(i) == signed.renumbering[CoefficientKey(coefficients[i])]
SameRenumberedParent(a, b) ==
    \/ coefficients[a].parent = 0 /\ coefficients[b].parent = 0
    \/ /\ coefficients[a].parent # 0 /\ coefficients[b].parent # 0
       /\ Renumbered(coefficients[a].parent) = Renumbered(coefficients[b].parent)

\* C6: the signature data of a Coefficient embeds counted-terminal identity
\* only through the renumbering: two Coefficients on the same function space
\* with the same part, whose counts (and whose parents' counts, when a parent
\* is set) the renumbering maps to the same integers, have equal signature
\* data even though the raw counts differ.
C6_SignatureByRenumberingOnly ==
    signed.op = "signature_data" =>
        \A a, b \in 1..Len(coefficients) :
            (/\ coefficients[a].function_space = coefficients[b].function_space
             /\ coefficients[a].part = coefficients[b].part
             /\ Renumbered(a) = Renumbered(b)
             /\ SameRenumberedParent(a, b))
            => SignatureEqual(signed.data[a], signed.data[b])

\* C11: v1 == v2 on a NewVariable v1 never raises; it is True when the other
\* object is a variable with the same label count, whatever the wrapped
\* expressions, and False when the label counts differ or the other object is
\* not a variable.
C11_VariableEqualityByLabel ==
    compared.op = "__eq__" =>
        LET self == compared.args[1]
            other == compared.args[2]
        IN  /\ compared.status = "ok"
            /\ compared.node = Bool(/\ other.cls = "NewVariable"
                                    /\ self.label = other.label)

\* The nodes of the input of pass p that are an operand of two or more of its
\* nodes.
Parents(p, n) == {q \in Reach(heap, p.input) : n \in Range(heap[q].ops)}
SharedNodes(p) == {n \in Reach(heap, p.input) : Cardinality(Parents(p, n)) >= 2}

\* C12: apply_transforms preserves sharing and visits each distinct node once:
\* a node of the input that is an operand of two or more parents has its rule
\* applied exactly once during the whole pass, and the results it is rewritten
\* to that are structurally the same and are part of the output are one
\* identical object.
C12_SharedNodeVisitedOnce ==
    \A i \in 1..Len(passes) :
        LET p == Pass(i)
        IN  ~p.failed =>
              \A n \in SharedNodes(p) :
                  /\ Count(p.visits, n) = 1
                  /\ \A x, y \in ResultsOf(p.results, n) \cap Reach(heap, p.output) :
                         Tree(heap, x) = Tree(heap, y) => x = y

\* C13: Coefficient equality and signature data are consistent: two
\* Coefficients that compare equal (same count, equal function space) have
\* equal signature data under any renumbering, also when they were constructed
\* with different part or parent values.
C13_EqualCoefficientsEqualSignatures ==
    signed.op = "signature_data" =>
        \A a, b \in 1..Len(coefficients) :
            Coefficient_eq(a, b) => SignatureEqual(signed.data[a], signed.data[b])

====
